---- MODULE Spec2Model ----
(***************************************************************************)
(* Sound localization: the capture thread (audio_input.audio_callback)     *)
(* feeds audio_q, the simulation calls main.feature_node_func once per     *)
(* tick, main.ild_to_angle maps an ILD to an angle, and main.py wires the  *)
(* feature node through four ensembles to angle_output.                    *)
(*                                                                         *)
(* Fixed-point rendering of the floating-point quantities:                 *)
(*   - a block is the tuple of the mean squares of its channels, in units  *)
(*     of 1e-8 (a block of a one-channel stream is a 1-tuple);             *)
(*   - energies (L, R, eps, ENERGY_THRESHOLD) are in units of 1e-10;       *)
(*   - ILD values are in whole dB, 10*log10 truncated toward zero;         *)
(*   - angles are in hundredths of a degree;                               *)
(*   - last_feat and returned values are 1-tuples, as np.array([x]) is.    *)
(***************************************************************************)
EXTENDS Integers, Sequences, FiniteSets, TLC

\* ------------------------------------------------------------------ bounds

\* Number of blocks the capture thread delivers in one behaviour.
MaxPuts == 3

\* Number of simulation ticks in one behaviour, over all runs.
MaxTicks == 4

\* Number of simulation runs in one process (the first one and its resets).
MaxRuns == 2

\* ILD arguments of ild_to_angle and constant features fed to the network
\* range over -MaxIld..MaxIld dB.
MaxIld == 45

\* Number of ticks the network is simulated on a constant feature.
MaxNetTicks == 6

\* Rows of live_detection's rolling buffer (buffer_samples, scaled down).
BufferSamples == 3

\* Rows of one chunk handed to live_detection's callback (BLOCK_SIZE, scaled
\* down; smaller than the buffer, as 256 is smaller than 80000).
MaxFrames == 2

\* Number of samples handed to live_detection's callback in one behaviour.
MaxSamples == 6

\* Number of blocks of the recording analyze_offline processes.
MaxOfflineBlocks == 3

\* ------------------------------------------------------- program constants

\* MAC_GAIN = 0.3, in tenths.
MAC_GAIN_x10 == 3

\* IPHONE_GAIN = 3.0, in tenths.
IPHONE_GAIN_x10 == 30

\* ILD_OFFSET = 25.0 dB.
ILD_OFFSET == 25

\* ENERGY_THRESHOLD = 1e-5, in units of 1e-10.
ENERGY_THRESHOLD == 100000

\* eps = 1e-8, in units of 1e-10.
eps == 100

\* THRESHOLD_DB = 3.0 dB of analyze_offline.py.
OFFLINE_THRESHOLD_DB == 3

\* THRESHOLD_DB = 3.0 dB of live_detection.py.
LIVE_THRESHOLD_DB == 3

\* eps = 1e-8 of analyze_offline.py, in units of 1e-10.
offline_eps == 100

\* ----------------------------------------------------------------- blocks

\* Blocks the sound card can deliver to audio_callback: per channel the mean
\* square of the samples (units of 1e-8).  Two-channel blocks are what the
\* stream opened by main.py delivers; a one-channel block is what a stream
\* opened by start_stream(device, channels=1) delivers.
StereoBlocks ==
    { <<100, 100>>,      \* quiet: total energy just below the threshold
      <<100, 110>>,      \* total energy just above the threshold
      <<0, 2000>> }      \* channel 0 silent, channel 1 loud

MonoBlocks == { <<20000>> }

Blocks == StereoBlocks \cup MonoBlocks

\* ------------------------------------------------------ feature extraction

\* 10^(k/10) scaled by 100, k = 0..9.
RatioTable == <<100, 126, 158, 200, 251, 316, 398, 501, 631, 794>>

\* 10*log10(a/b) truncated to whole dB, for a >= b > 0.
RECURSIVE DbFloor(_, _)
DbFloor(a, b) ==
    IF a >= 10 * b
    THEN 10 + DbFloor(a, 10 * b)
    ELSE CHOOSE k \in 0..9 :
            /\ RatioTable[k + 1] * b <= 100 * a
            /\ (k < 9 => RatioTable[k + 2] * b > 100 * a)

\* np.log10 of the ratio times 10, in whole dB (truncated toward zero).
Log10x10(a, b) == IF a >= b THEN DbFloor(a, b) ELSE 0 - DbFloor(b, a)

\* np.mean((gain * channel) ** 2): the gained energy of one channel.
GainedEnergy(gain_x10, meansq) == gain_x10 * gain_x10 * meansq

\* L and R of feature_node_func.
EnergyL(block) == GainedEnergy(MAC_GAIN_x10, block[1]) + eps
EnergyR(block) == GainedEnergy(IPHONE_GAIN_x10, block[2]) + eps

\* Variant of IsSilent that tests channel 0 alone.
IsSilent_MacOnly(block) == EnergyL(block) < ENERGY_THRESHOLD

\* total_energy < ENERGY_THRESHOLD
IsSilent(block) == EnergyL(block) + EnergyR(block) < ENERGY_THRESHOLD

\* ild = 10 * np.log10(L / R) + ILD_OFFSET
ComputeIld(block) == Log10x10(EnergyL(block), EnergyR(block)) + ILD_OFFSET

\* block[:, 0] and block[:, 1] raise IndexError unless the block has two
\* channels.
Malformed(block) == Len(block) < 2

\* Variant of get_nowait that reads the oldest block and leaves it queued.
get_nowait_peek(q) ==
    IF q = <<>>
    THEN [raised |-> TRUE, rest |-> q]
    ELSE [raised |-> FALSE, block |-> Head(q), rest |-> q]

\* audio_q.get_nowait(): the oldest block and the rest of the queue, or
\* queue.Empty raised.
get_nowait(q) ==
    IF q = <<>>
    THEN [raised |-> TRUE, rest |-> q]
    ELSE [raised |-> FALSE, block |-> Head(q), rest |-> Tail(q)]

\* Variant of feature_node_func whose except branch falls back to the
\* initial feature instead of keeping last_feat.
feature_node_func_zero_on_empty(q, lf) ==
    LET got == get_nowait(q) IN
    IF got.raised
    THEN [q |-> got.rest, taken |-> <<>>, last_feat |-> <<0>>, ret |-> <<0>>,
          path |-> "empty"]
    ELSE IF Malformed(got.block)
    THEN [q |-> got.rest, taken |-> << got.block >>, last_feat |-> <<0>>,
          ret |-> <<0>>, path |-> "error"]
    ELSE IF IsSilent(got.block)
    THEN [q |-> got.rest, taken |-> << got.block >>, last_feat |-> lf,
          ret |-> lf, path |-> "silent"]
    ELSE [q |-> got.rest, taken |-> << got.block >>,
          last_feat |-> << ComputeIld(got.block) >>,
          ret |-> << ComputeIld(got.block) >>,
          path |-> "new"]

\* Variant of feature_node_func whose handler catches queue.Empty only: the
\* IndexError of a malformed block leaves the function uncaught.
feature_node_func_except_empty_only(q, lf) ==
    LET got == get_nowait(q) IN
    IF got.raised
    THEN [q |-> got.rest, taken |-> <<>>, last_feat |-> lf, ret |-> lf,
          path |-> "empty"]
    ELSE IF Malformed(got.block)
    THEN [q |-> got.rest, taken |-> << got.block >>, last_feat |-> lf,
          ret |-> <<>>, path |-> "raised"]
    ELSE IF IsSilent(got.block)
    THEN [q |-> got.rest, taken |-> << got.block >>, last_feat |-> lf,
          ret |-> lf, path |-> "silent"]
    ELSE [q |-> got.rest, taken |-> << got.block >>,
          last_feat |-> << ComputeIld(got.block) >>,
          ret |-> << ComputeIld(got.block) >>,
          path |-> "new"]

\* The body of feature_node_func on queue q with the module-level last_feat
\* lf: what it leaves in the queue, the blocks it took from it, what it
\* stores in last_feat, what it returns, and which path it took:
\*   "empty"  get_nowait raised queue.Empty, caught by except Exception;
\*   "error"  indexing the block raised, caught by except Exception;
\*   "silent" the early return below the energy threshold;
\*   "new"    a new ILD was computed and stored.
feature_node_func(q, lf) ==
    LET got == get_nowait(q) IN
    IF got.raised
    THEN [q |-> got.rest, taken |-> <<>>, last_feat |-> lf, ret |-> lf,
          path |-> "empty"]
    ELSE IF Malformed(got.block)
    THEN [q |-> got.rest, taken |-> << got.block >>, last_feat |-> lf,
          ret |-> lf, path |-> "error"]
    ELSE IF IsSilent(got.block)
    THEN [q |-> got.rest, taken |-> << got.block >>, last_feat |-> lf,
          ret |-> lf, path |-> "silent"]
    ELSE [q |-> got.rest, taken |-> << got.block >>,
          last_feat |-> << ComputeIld(got.block) >>,
          ret |-> << ComputeIld(got.block) >>,
          path |-> "new"]

\* ---------------------------------------------------------- ILD to angle

Min(a, b) == IF a <= b THEN a ELSE b

Max(a, b) == IF a >= b THEN a ELSE b

\* Variant of ild_to_angle that scales without clipping.
ild_to_angle_unclipped(ild) == (ild * 90 * 100) \div 40

\* main.ild_to_angle: clip to [-40, 40] dB, then (ild_clipped / 40.0) * 90.0,
\* in hundredths of a degree.
ild_to_angle(ild) ==
    LET ild_clipped == Max(-40, Min(40, ild))
    IN  (ild_clipped * 90 * 100) \div 40

\* ---------------------------------------------------------------- network

\* Radius of an nengo.Ensemble built without a radius argument, as all four
\* ensembles of main.py are.
RADIUS == 1

\* The value an ensemble represents for input x: x within the radius, and
\* the neurons saturate outside it.
Represent(x) == Max(0 - RADIUS, Min(RADIUS, x))

\* ------------------------------------------------------------------ state

VARIABLES
    mode,        \* which script runs: "main", "analyze_offline", "live_detection"
    phase,       \* "Idle", "Running", "Stopped"
    exit_cause,  \* how Running ended: "none", "normal", "KeyboardInterrupt"
    streams,     \* state of each audio input stream the process may start
    audio_q,     \* audio_input.audio_q
    puts,        \* number of audio_callback calls so far
    last_feat,   \* main.last_feat
    pc,          \* "idle", or "node" while the simulator is in feature_node_func
    ret,         \* value returned by the last feature_node_func call, <<>> if none
    path,        \* path the last call took through feature_node_func
    runs,        \* simulation runs started in this process
    ticks,       \* ticks completed in this process, over all runs
    run_ticks,   \* ticks completed in the current run
    gap,         \* consecutive calls, up to the last one, that found the queue empty
    consumed,    \* blocks dequeued so far, oldest first
    fresh_feat,  \* last_feat of a fresh process replaying this run's inputs
    \* arguments and results of ild_to_angle
    ild_a, ild_b,      \* two ILD values, whole dB
    angle_a, angle_b,  \* <<>>, or the 1-tuple of ild_to_angle's result
    \* the network of main.py driven by a constant feature
    feat_in,       \* the value the feature node outputs on every tick
    ild_snn,       \* value represented by ensemble ild_snn
    on_neurons,    \* value represented by ensemble on_neurons
    off_neurons,   \* value represented by ensemble off_neurons
    angle_snn,     \* value represented by ensemble angle_snn
    angle_output,  \* value at node angle_output, hundredths of a degree
    net_ticks,     \* ticks of the network simulated so far
    \* live_detection: the rolling buffer, its callback and the GUI timer
    audio_buffer,    \* live_detection.audio_buffer, oldest row first
    cb_pc,           \* "idle", or "rolled" between the callback's two statements
    cb_indata,       \* indata of the callback in progress, <<>> if none
    handed,          \* number of samples handed to callbacks so far
    delivered,       \* samples of the completed callbacks, oldest first
    buf,             \* the last snapshot update() took, <<>> if none
    snap_delivered,  \* delivered when that snapshot was taken
    snap_pending,    \* cb_indata when that snapshot was taken
    \* analyze_offline: the block loop, and feature_node_func on the same blocks
    audio,             \* the recording, as its sequence of blocks
    block_i,           \* blocks the loop has processed
    ild_values,        \* analyze_offline.ild_values
    angle_values,      \* analyze_offline.angle_values
    direction_values,  \* analyze_offline.direction_values
    fn_q,              \* a queue holding the blocks of the recording
    fn_last_feat,      \* last_feat of feature_node_func run on fn_q
    fn_stored,         \* the new values that run has stored in last_feat
    \* the direction classification of one ILD value
    ild_c,        \* the ILD value, whole dB
    dir_offline,  \* <<>>, or the 1-tuple of analyze_offline's class for it
    dir_live      \* <<>>, or the 1-tuple of live_detection's class for it

rt_vars == << mode, phase, exit_cause, streams, audio_q, puts, last_feat, pc,
              ret, path, runs, ticks, run_ticks, gap, consumed, fresh_feat >>

fn_vars == << ild_a, ild_b, angle_a, angle_b >>

net_vars == << feat_in, ild_snn, on_neurons, off_neurons, angle_snn,
               angle_output, net_ticks >>

live_vars == << audio_buffer, cb_pc, cb_indata, handed, delivered, buf,
                snap_delivered, snap_pending >>

off_vars == << audio, block_i, ild_values, angle_values, direction_values,
               fn_q, fn_last_feat, fn_stored >>

dir_vars == << ild_c, dir_offline, dir_live >>

ext_vars == << live_vars, off_vars, dir_vars >>

vars == << rt_vars, fn_vars, net_vars, ext_vars >>

Modes == {"main", "analyze_offline", "live_detection"}

StreamNames == {"main", "rec", "live"}

\* Streams already started when the script reaches Idle.
StreamsAtIdle(m) ==
    [s \in StreamNames |->
        IF s = "main" THEN "active"
        ELSE IF s = "live" /\ m = "live_detection" THEN "active"
        ELSE "unopened"]

RuntimeInit ==
    /\ mode \in Modes
    /\ phase = "Idle"
    /\ exit_cause = "none"
    /\ streams = StreamsAtIdle(mode)
    /\ audio_q = <<>>
    /\ puts = 0
    /\ last_feat = <<0>>
    /\ pc = "idle"
    /\ ret = <<>>
    /\ path = "none"
    /\ runs = 0
    /\ ticks = 0
    /\ run_ticks = 0
    /\ gap = 0
    /\ consumed = <<>>
    /\ fresh_feat = <<0>>

\* ild_to_angle has not been called.
AngleIdle ==
    /\ ild_a = 0
    /\ ild_b = 0
    /\ angle_a = <<>>
    /\ angle_b = <<>>

\* The network is built and has not run: every filter state is 0.
NetIdle ==
    /\ feat_in = 0
    /\ ild_snn = 0
    /\ on_neurons = 0
    /\ off_neurons = 0
    /\ angle_snn = 0
    /\ angle_output = 0
    /\ net_ticks = 0

\* live_detection not started: the buffer is np.zeros((buffer_samples, 2)).
LiveIdle ==
    /\ audio_buffer = [i \in 1..BufferSamples |-> 0]
    /\ cb_pc = "idle"
    /\ cb_indata = <<>>
    /\ handed = 0
    /\ delivered = <<>>
    /\ buf = <<>>
    /\ snap_delivered = <<>>
    /\ snap_pending = <<>>

\* analyze_offline not started.
OfflineIdle ==
    /\ audio = <<>>
    /\ block_i = 0
    /\ ild_values = <<>>
    /\ angle_values = <<>>
    /\ direction_values = <<>>
    /\ fn_q = <<>>
    /\ fn_last_feat = <<0>>
    /\ fn_stored = <<>>

\* No ILD value has been classified.
DirIdle ==
    /\ ild_c = 0
    /\ dir_offline = <<>>
    /\ dir_live = <<>>

ExtIdle == LiveIdle /\ OfflineIdle /\ DirIdle

Init == RuntimeInit /\ AngleIdle /\ NetIdle /\ ExtIdle

\* ---------------------------------------------------------------- actions

\* audio_input.audio_callback: the capture thread puts a copy of the block.
AudioCallback ==
    /\ streams["main"] = "active"
    /\ puts < MaxPuts
    /\ \E indata \in Blocks : audio_q' = Append(audio_q, indata)
    /\ puts' = puts + 1
    /\ UNCHANGED << mode, phase, exit_cause, streams, last_feat, pc, ret, path,
                    runs, ticks, run_ticks, gap, consumed, fresh_feat >>
    /\ UNCHANGED << fn_vars, net_vars, ext_vars >>

\* Idle -> Running.
Start ==
    /\ phase = "Idle"
    /\ phase' = "Running"
    /\ runs' = 1
    /\ streams' = IF mode = "analyze_offline"
                  THEN [streams EXCEPT !["rec"] = "active"]
                  ELSE streams
    /\ UNCHANGED << mode, exit_cause, audio_q, puts, last_feat, pc, ret, path,
                    ticks, run_ticks, gap, consumed, fresh_feat >>
    /\ UNCHANGED << fn_vars, net_vars, ext_vars >>

\* The simulator starts a tick and calls the feature node.
SimTick ==
    /\ mode = "main"
    /\ phase = "Running"
    /\ pc = "idle"
    /\ ticks < MaxTicks
    /\ pc' = "node"
    /\ UNCHANGED << mode, phase, exit_cause, streams, audio_q, puts, last_feat,
                    ret, path, runs, ticks, run_ticks, gap, consumed,
                    fresh_feat >>
    /\ UNCHANGED << fn_vars, net_vars, ext_vars >>

\* The effect of one feature_node_func call on the state.
FeatureNodeFuncBody ==
    LET r == feature_node_func(audio_q, last_feat)
        f == feature_node_func(audio_q, fresh_feat)
    IN    /\ audio_q' = r.q
          /\ last_feat' = r.last_feat
          /\ ret' = r.ret
          /\ path' = r.path
          /\ fresh_feat' = f.last_feat
          /\ consumed' = consumed \o r.taken
          /\ gap' = IF r.path = "empty" THEN gap + 1 ELSE 0
          /\ pc' = "idle"
          /\ ticks' = ticks + 1
          /\ run_ticks' = run_ticks + 1
          /\ UNCHANGED << mode, phase, exit_cause, streams, puts, runs >>
          /\ UNCHANGED << fn_vars, net_vars, ext_vars >>

\* Variant of FeatureNodeFunc that reads with a blocking audio_q.get().
FeatureNodeFunc_Blocking ==
    /\ pc = "node"
    /\ audio_q # <<>>
    /\ FeatureNodeFuncBody

\* feature_node_func runs and returns.
FeatureNodeFunc ==
    /\ pc = "node"
    /\ FeatureNodeFuncBody

\* The simulation is reset and run again in the same process: a new
\* simulator is built on the same network, module globals are kept.
SimReset ==
    /\ mode = "main"
    /\ phase = "Running"
    /\ pc = "idle"
    /\ runs < MaxRuns
    /\ runs' = runs + 1
    /\ run_ticks' = 0
    /\ fresh_feat' = <<0>>
    /\ UNCHANGED << mode, phase, exit_cause, streams, audio_q, puts, last_feat,
                    pc, ret, path, ticks, gap, consumed >>
    /\ UNCHANGED << fn_vars, net_vars, ext_vars >>

\* Running -> Stopped.
Stop ==
    /\ phase = "Running"
    /\ pc = "idle"
    /\ phase' = "Stopped"
    /\ \E cause \in {"normal", "KeyboardInterrupt"} : exit_cause' = cause
    /\ streams' = CASE mode = "live_detection" ->
                         [streams EXCEPT !["live"] = "closed"]
                    [] mode = "analyze_offline" ->
                         [streams EXCEPT !["rec"] = "closed"]
                    [] OTHER -> streams
    /\ UNCHANGED << mode, audio_q, puts, last_feat, pc, ret, path, runs,
                    ticks, run_ticks, gap, consumed, fresh_feat >>
    /\ UNCHANGED << fn_vars, net_vars, ext_vars >>

Next ==
    \/ AudioCallback
    \/ Start
    \/ SimTick
    \/ FeatureNodeFunc
    \/ SimReset
    \/ Stop

Spec == Init /\ [][Next]_vars

\* ------------------------------------------------ ild_to_angle in isolation

IldDomain == (0 - MaxIld)..MaxIld

AngleInit ==
    /\ RuntimeInit
    /\ mode = "main"
    /\ ild_a \in IldDomain
    /\ ild_b \in IldDomain
    /\ angle_a = <<>>
    /\ angle_b = <<>>
    /\ NetIdle
    /\ ExtIdle

\* ild_to_angle is called on each of the two arguments.
CallIldToAngle ==
    /\ angle_a = <<>>
    /\ angle_a' = << ild_to_angle(ild_a) >>
    /\ angle_b' = << ild_to_angle(ild_b) >>
    /\ UNCHANGED << ild_a, ild_b, rt_vars, net_vars, ext_vars >>

AngleNext == CallIldToAngle

AngleSpec == AngleInit /\ [][AngleNext]_vars

\* ------------------------------------- the network on a constant feature

NetInit ==
    /\ RuntimeInit
    /\ mode = "main"
    /\ AngleIdle
    /\ feat_in \in IldDomain
    /\ ild_snn = 0
    /\ on_neurons = 0
    /\ off_neurons = 0
    /\ angle_snn = 0
    /\ angle_output = 0
    /\ net_ticks = 0
    /\ ExtIdle

\* One tick of the network of main.py with the feature node held at feat_in.
\* Every connection delivers, one tick later, the value its source
\* represents (its synapse filter settled on it); connections into the same
\* ensemble add up.
\*   feat_node -> ild_snn; ild_snn -> on_neurons; ild_snn -> off_neurons;
\*   on_neurons -> angle_snn; off_neurons -> angle_snn;
\*   angle_snn -> angle_output with function ild_to_angle(x[0]).
NetStep ==
    /\ net_ticks < MaxNetTicks
    /\ ild_snn' = Represent(feat_in)
    /\ on_neurons' = Represent(ild_snn)
    /\ off_neurons' = Represent(ild_snn)
    /\ angle_snn' = Represent(on_neurons + off_neurons)
    /\ angle_output' = ild_to_angle(angle_snn)
    /\ net_ticks' = net_ticks + 1
    /\ UNCHANGED << feat_in, rt_vars, fn_vars, ext_vars >>

NetNext == NetStep

NetSpec == NetInit /\ [][NetNext]_vars

\* -------------------------------------- live_detection's rolling buffer

\* np.roll(a, -k, axis=0): row i of the result is row i + k of a, wrapping.
Roll(a, k) == [i \in 1..Len(a) |-> a[((i - 1 + k) % Len(a)) + 1]]

\* a[-k:, :]: the last k rows of a.
LastRows(a, k) == SubSeq(a, Len(a) - k + 1, Len(a))

\* a with its last k rows assigned from rows.
WriteTail(a, k, rows) ==
    [i \in 1..Len(a) |-> IF i <= Len(a) - k THEN a[i] ELSE rows[i - (Len(a) - k)]]

\* frames = min(frames, buffer_samples)
Frames(indata) == Min(Len(indata), BufferSamples)

\* live_detection.py runs on the two-channel device; a row is modelled by
\* the ordinal number of its sample (0 for the zeros the buffer starts with).
LiveInit ==
    /\ RuntimeInit
    /\ mode = "live_detection"
    /\ AngleIdle
    /\ NetIdle
    /\ LiveIdle
    /\ OfflineIdle
    /\ DirIdle

\* audio_callback, first statement: audio_buffer is rebound to the rolled
\* copy, whose tail holds the oldest rows.
LiveCallbackRoll ==
    /\ cb_pc = "idle"
    /\ \E frames \in 1..MaxFrames :
          /\ handed + frames <= MaxSamples
          /\ cb_indata' = [i \in 1..frames |-> handed + i]
          /\ handed' = handed + frames
          /\ audio_buffer' = Roll(audio_buffer, Min(frames, BufferSamples))
    /\ cb_pc' = "rolled"
    /\ UNCHANGED << delivered, buf, snap_delivered, snap_pending >>
    /\ UNCHANGED << rt_vars, fn_vars, net_vars, off_vars, dir_vars >>

\* audio_callback, second statement: the chunk is written over the tail.
LiveCallbackWrite ==
    /\ cb_pc = "rolled"
    /\ audio_buffer' = WriteTail(audio_buffer, Frames(cb_indata),
                                 LastRows(cb_indata, Frames(cb_indata)))
    /\ delivered' = delivered \o cb_indata
    /\ cb_indata' = <<>>
    /\ cb_pc' = "idle"
    /\ UNCHANGED << handed, buf, snap_delivered, snap_pending >>
    /\ UNCHANGED << rt_vars, fn_vars, net_vars, off_vars, dir_vars >>

\* update(), on the GUI timer: buf = audio_buffer.copy().
LiveUpdate ==
    /\ buf' = audio_buffer
    /\ snap_delivered' = delivered
    /\ snap_pending' = cb_indata
    /\ UNCHANGED << audio_buffer, cb_pc, cb_indata, handed, delivered >>
    /\ UNCHANGED << rt_vars, fn_vars, net_vars, off_vars, dir_vars >>

LiveNext ==
    \/ LiveCallbackRoll
    \/ LiveCallbackWrite
    \/ LiveUpdate

LiveSpec == LiveInit /\ [][LiveNext]_vars

\* The arguments main.py passes to nengo.Ensemble for on_neurons; encoders
\* and intercepts are not passed, so the library's defaults apply to both
\* populations alike.
OnNeuronsArgs ==
    [ n_neurons   |-> 100,
      dimensions  |-> 1,
      label       |-> "On_Neurons",
      neuron_type |-> "LIF",
      max_rates   |-> <<100, 200>>,
      encoders    |-> "default",
      intercepts  |-> "default" ]

\* The arguments main.py passes to nengo.Ensemble for off_neurons.
OffNeuronsArgs ==
    [ n_neurons   |-> 100,
      dimensions  |-> 1,
      label       |-> "Off_Neurons",
      neuron_type |-> "LIF",
      max_rates   |-> <<100, 200>>,
      encoders    |-> "default",
      intercepts  |-> "default" ]

\* The nengo.Connection calls that touch on_neurons or off_neurons; synapse
\* in milliseconds.
OnOffConnections ==
    { [pre |-> "ild_snn", post |-> "on_neurons", synapse |-> 10],
      [pre |-> "ild_snn", post |-> "off_neurons", synapse |-> 10],
      [pre |-> "on_neurons", post |-> "angle_snn", synapse |-> 10],
      [pre |-> "off_neurons", post |-> "angle_snn", synapse |-> 10] }

\* What decides which inputs a population's neurons respond to.
Tuning(args) ==
    [ n_neurons   |-> args.n_neurons,
      dimensions  |-> args.dimensions,
      neuron_type |-> args.neuron_type,
      max_rates   |-> args.max_rates,
      encoders    |-> args.encoders,
      intercepts  |-> args.intercepts ]

\* ------------------------------------------ analyze_offline's block loop

\* Blocks of a two-channel recording (sd.rec with CHANNELS = 2).
OfflineBlocks == StereoBlocks \cup { <<52, 200>> }  \* equal after gain and offset

\* L and R of the block loop.
OfflineL(block) == GainedEnergy(MAC_GAIN_x10, block[1]) + offline_eps
OfflineR(block) == GainedEnergy(IPHONE_GAIN_x10, block[2]) + offline_eps

\* total_energy < ENERGY_THRESHOLD: the block is skipped.
OfflineIsSilent(block) == OfflineL(block) + OfflineR(block) < ENERGY_THRESHOLD

\* Variant of OfflineIld that leaves the calibration offset out.
OfflineIld_no_offset(block) == Log10x10(OfflineL(block), OfflineR(block))

\* ild = 10 * np.log10(L / R); ild = ild + ILD_OFFSET
OfflineIld(block) == Log10x10(OfflineL(block), OfflineR(block)) + ILD_OFFSET

\* The direction class of analyze_offline.py.
OfflineDirection(ild) ==
    IF ild > OFFLINE_THRESHOLD_DB THEN -1
    ELSE IF ild < 0 - OFFLINE_THRESHOLD_DB THEN 1
    ELSE 0

\* Variant of LiveDirection whose first test includes the threshold.
LiveDirection_inclusive(ild) ==
    IF ild >= LIVE_THRESHOLD_DB THEN -1
    ELSE IF ild < 0 - LIVE_THRESHOLD_DB THEN 1
    ELSE 0

\* The direction class of live_detection.update.
LiveDirection(ild) ==
    IF ild > LIVE_THRESHOLD_DB THEN -1
    ELSE IF ild < 0 - LIVE_THRESHOLD_DB THEN 1
    ELSE 0

\* Recordings of up to MaxOfflineBlocks whole blocks.
Recordings ==
    UNION { [1..n -> OfflineBlocks] : n \in 0..MaxOfflineBlocks }

OfflineInit ==
    /\ RuntimeInit
    /\ mode = "analyze_offline"
    /\ AngleIdle
    /\ NetIdle
    /\ LiveIdle
    /\ DirIdle
    /\ audio \in Recordings
    /\ block_i = 0
    /\ ild_values = <<>>
    /\ angle_values = <<>>
    /\ direction_values = <<>>
    /\ fn_q = audio
    /\ fn_last_feat = <<0>>
    /\ fn_stored = <<>>

\* One iteration of the block loop: the block is skipped if silent, else
\* its ILD, angle and direction are appended.
OfflineBlock ==
    /\ block_i < Len(audio)
    /\ block_i' = block_i + 1
    /\ LET block == audio[block_i + 1]
           ild == OfflineIld(block)
       IN  IF OfflineIsSilent(block)
           THEN UNCHANGED << ild_values, angle_values, direction_values >>
           ELSE /\ ild_values' = Append(ild_values, ild)
                /\ angle_values' = Append(angle_values, ild_to_angle(ild))
                /\ direction_values' =
                       Append(direction_values, OfflineDirection(ild))
    /\ UNCHANGED << audio, fn_q, fn_last_feat, fn_stored >>
    /\ UNCHANGED << rt_vars, fn_vars, net_vars, live_vars, dir_vars >>

\* feature_node_func dequeues the next block of the same recording.
ReplayFeatureNodeFunc ==
    /\ fn_q # <<>>
    /\ LET r == feature_node_func(fn_q, fn_last_feat)
       IN  /\ fn_q' = r.q
           /\ fn_last_feat' = r.last_feat
           /\ fn_stored' = IF r.path = "new"
                           THEN fn_stored \o r.last_feat
                           ELSE fn_stored
    /\ UNCHANGED << audio, block_i, ild_values, angle_values,
                    direction_values >>
    /\ UNCHANGED << rt_vars, fn_vars, net_vars, live_vars, dir_vars >>

OfflineNext ==
    \/ OfflineBlock
    \/ ReplayFeatureNodeFunc

OfflineSpec == OfflineInit /\ [][OfflineNext]_vars

\* ---------------------------------------- direction classes in isolation

DirInit ==
    /\ RuntimeInit
    /\ mode = "analyze_offline"
    /\ AngleIdle
    /\ NetIdle
    /\ LiveIdle
    /\ OfflineIdle
    /\ ild_c \in IldDomain
    /\ dir_offline = <<>>
    /\ dir_live = <<>>

\* Both scripts classify the ILD value.
Classify ==
    /\ dir_offline = <<>>
    /\ dir_offline' = << OfflineDirection(ild_c) >>
    /\ dir_live' = << LiveDirection(ild_c) >>
    /\ UNCHANGED << ild_c, rt_vars, fn_vars, net_vars, live_vars, off_vars >>

DirNext == Classify

DirSpec == DirInit /\ [][DirNext]_vars

\* ----------------------------------------------------------------- claims

\* A step in which feature_node_func runs from call to return.
CallStep == pc = "node" /\ pc' = "idle"

\* The value returned by the last call, or the initial 0.0 before any call.
PreviousFeature == IF ret = <<>> THEN <<0>> ELSE ret

\* C1: a call that finds the queue empty returns the value the call before
\* it returned (the initial 0.0 if there was none) and leaves last_feat
\* unchanged; hence k consecutive empty calls all return the value of the
\* last call before the gap.
C1_MissingInputHold ==
    [][ (CallStep /\ audio_q = <<>>)
            => (ret' = PreviousFeature /\ last_feat' = last_feat) ]_vars

\* C1 witness: two consecutive empty calls have held a computed ILD.
C1_Witness == gap >= 2 /\ ret # <<0>> /\ ret # <<>>

\* C2: a call that dequeues a two-channel block whose combined gained energy
\* is below ENERGY_THRESHOLD returns the held value and leaves last_feat
\* unchanged; at or above the threshold it returns
\* 10*log10(energy_A/energy_B) + ILD_OFFSET and stores it as last_feat.
C2_SilenceHold ==
    [][ (CallStep /\ audio_q # <<>> /\ Len(Head(audio_q)) = 2) =>
            LET b == Head(audio_q)
                energy_A == MAC_GAIN_x10 * MAC_GAIN_x10 * b[1] + eps
                energy_B == IPHONE_GAIN_x10 * IPHONE_GAIN_x10 * b[2] + eps
                ild == Log10x10(energy_A, energy_B) + ILD_OFFSET
            IN  IF energy_A + energy_B < ENERGY_THRESHOLD
                THEN ret' = last_feat /\ last_feat' = last_feat
                ELSE ret' = << ild >> /\ last_feat' = << ild >> ]_vars

\* C2 witness: a silent block was dequeued while a computed ILD was held,
\* after a block with one quiet channel had produced a new ILD.
C2_Witness ==
    /\ path = "silent"
    /\ last_feat # <<0>>
    /\ \E i \in 1..Len(consumed) :
          Len(consumed[i]) = 2 /\ consumed[i][1] = 0

\* C3: ild_to_angle is linear on [-40, 40] dB with 90 degrees at 40 dB and
\* constant outside: the result lies in [-90, 90], is -90 at and below -40,
\* 0 at 0, +90 at and above 40 (41.0 -> 90.0), 56.25 at 25.0, and is
\* non-decreasing in ild.
C3_ClipAndScale ==
    angle_a # <<>> =>
        LET ra == angle_a[1]
            rb == angle_b[1]
        IN  /\ ra \in -9000..9000
            /\ (ild_a >= -40 /\ ild_a <= 40) => 40 * ra = 9000 * ild_a
            /\ ild_a <= -40 => ra = -9000
            /\ ild_a >= 40 => ra = 9000
            /\ ild_a = 0 => ra = 0
            /\ ild_a = 25 => ra = 5625
            /\ ild_a = 41 => ra = 9000
            /\ ild_a <= ild_b => ra <= rb

\* C3 witness: ild_to_angle has returned 90.0 for 41.0 and 56.25 for 25.0.
C3_Witness ==
    /\ ild_a = 41 /\ angle_a = <<9000>>
    /\ ild_b = 25 /\ angle_b = <<5625>>

\* C4: while the simulator is inside feature_node_func, the step that
\* completes the call and returns is enabled, whatever the queue holds and
\* whatever the capture thread has or has not done: the call never waits.
C4_NoTickBlocks == (pc = "node") => ENABLED FeatureNodeFunc

\* C4 witness: two ticks completed although nothing was ever enqueued.
C4_Witness == puts = 0 /\ run_ticks >= 2 /\ pc = "idle"

\* C5 (as claimed): there is a fixed capacity, smaller than the number of
\* blocks the capture thread delivers, that the queue never exceeds.
C5_QueueBounded == Len(audio_q) < MaxPuts

\* The network has settled: another tick changes no represented value.
NetSettled ==
    /\ net_ticks >= 1
    /\ ild_snn = Represent(feat_in)
    /\ on_neurons = Represent(ild_snn)
    /\ off_neurons = Represent(ild_snn)
    /\ angle_snn = Represent(on_neurons + off_neurons)
    /\ angle_output = ild_to_angle(angle_snn)

\* C6 (as claimed): with the feature held at v, the settled value at
\* angle_output is ild_to_angle(v): 56.25 for 25 dB, 0 for 0 dB, 90 for 41 dB.
C6_EndToEnd ==
    (NetSettled /\ feat_in \in {0, 25, 41})
        => angle_output = ild_to_angle(feat_in)

\* C7 (as claimed): a run returns, tick by tick, what a run of a fresh
\* process returns on the same per-tick sequence of source results.
C7_Deterministic == (pc = "idle" /\ run_ticks > 0) => ret = fresh_feat

\* C8 (as claimed): a tick that finds the queue empty increments a counter,
\* so it changes the state the program keeps.
C8_GapsCounted ==
    [][ (CallStep /\ audio_q = <<>>)
            => << audio_q, last_feat >>' # << audio_q, last_feat >> ]_vars

\* C9 (as claimed): at Stopped every stream the program started has been
\* stopped and closed.
C9_StreamsReleased ==
    phase = "Stopped" =>
        \A s \in StreamNames : streams[s] \in {"unopened", "closed"}

C11_ErrorsHold ==
    [][ (CallStep /\ (audio_q = <<>> \/ Len(Head(audio_q)) < 2)) =>
            /\ path' \in {"empty", "error"}
            /\ ret' = last_feat
            /\ last_feat' = last_feat ]_vars

\* C11 witness: a malformed block was dequeued while a computed ILD was
\* held, and the call returned that ILD.
C11_Witness ==
    /\ path = "error"
    /\ last_feat # <<0>>
    /\ ret = last_feat

\* The most recent BufferSamples samples of s in chronological order, padded
\* with zeros at the front.
MostRecent(s) ==
    [i \in 1..BufferSamples |->
        IF Len(s) - BufferSamples + i >= 1
        THEN s[Len(s) - BufferSamples + i]
        ELSE 0]

\* C12 (as claimed): every snapshot update() takes has buffer_samples rows
\* and holds the most recent samples delivered so far in chronological
\* order, zero-padded at the front (the chunk of a callback in progress
\* counted or not); it never holds old samples wrapped to the tail.
C12_SnapshotConsistent ==
    buf # <<>> =>
        /\ Len(buf) = BufferSamples
        /\ \/ buf = MostRecent(snap_delivered)
           \/ buf = MostRecent(snap_delivered \o snap_pending)

\* C13: whenever the block loop and feature_node_func have processed the
\* same number of blocks of a recording, the ILD values the loop has appended
\* are the new values feature_node_func has stored in last_feat, in order;
\* blocks below ENERGY_THRESHOLD add a value to neither.
C13_OfflineSameAsNode ==
    (block_i = Len(audio) - Len(fn_q)) => ild_values = fn_stored

\* C13 witness: a whole recording was processed both ways, with two values
\* appended and one silent block skipped.
C13_Witness ==
    /\ Len(audio) = 3
    /\ block_i = 3
    /\ fn_q = <<>>
    /\ Len(ild_values) = 2
    /\ Len(fn_stored) = 2

\* C14 (as claimed): direction -1 (Left) is recorded only with an angle
\* <= 0 and direction +1 (Right) only with an angle >= 0.
C14_DirectionAgreesWithAngle ==
    \A i \in 1..Len(direction_values) :
        /\ direction_values[i] = -1 => angle_values[i] <= 0
        /\ direction_values[i] = 1 => angle_values[i] >= 0

\* C15: each ILD value gets exactly one class: -1 above 3.0 dB, +1 below
\* -3.0 dB, 0 otherwise (3.0 and -3.0 included), and analyze_offline and
\* live_detection give it the same class.
C15_DirectionPartition ==
    dir_offline # <<>> =>
        /\ Len(dir_offline) = 1 /\ Len(dir_live) = 1
        /\ dir_offline[1] \in {-1, 0, 1}
        /\ ild_c > 3 <=> dir_offline[1] = -1
        /\ ild_c < -3 <=> dir_offline[1] = 1
        /\ (ild_c >= -3 /\ ild_c <= 3) <=> dir_offline[1] = 0
        /\ dir_live = dir_offline

\* C15 witness: the boundary value 3.0 dB was classified as centre by both.
C15_Witness == ild_c = 3 /\ dir_offline = <<0>> /\ dir_live = <<0>>

\* C16 (as claimed): on_neurons and off_neurons are both fed from ild_snn
\* through the same synapse and both feed angle_snn, and they are built with
\* different tuning: On encoders +1 and Off encoders -1, or intercepts biased
\* to opposite sides, so that their construction parameters differ; the two
\* populations may then represent different values.
C16_OnOffSplit ==
    /\ \E s \in {10} :
          /\ [pre |-> "ild_snn", post |-> "on_neurons", synapse |-> s]
                \in OnOffConnections
          /\ [pre |-> "ild_snn", post |-> "off_neurons", synapse |-> s]
                \in OnOffConnections
    /\ \E c \in OnOffConnections :
          c.pre = "on_neurons" /\ c.post = "angle_snn"
    /\ \E c \in OnOffConnections :
          c.pre = "off_neurons" /\ c.post = "angle_snn"
    /\ net_ticks > 0 =>
          /\ \/ OnNeuronsArgs.encoders = "+1" /\ OffNeuronsArgs.encoders = "-1"
             \/ /\ OnNeuronsArgs.intercepts # "default"
                /\ OffNeuronsArgs.intercepts # "default"
                /\ OnNeuronsArgs.intercepts # OffNeuronsArgs.intercepts
          /\ Tuning(OnNeuronsArgs) # Tuning(OffNeuronsArgs)

====
